---- MODULE Spec2Model ----
(***************************************************************************)
(* Booking state machine and job-assignment engine of the CAAS backend.    *)
(* The document store (collections bookings, job_rejections, users) is the *)
(* only shared state.  Every store call is atomic; a handler that reads    *)
(* and later writes (accept_job, the auto-assignment sweep) is a sequence  *)
(* of steps that other requests, served by other instances, interleave     *)
(* with.  Money is counted in pence, times in whole hours.                 *)
(***************************************************************************)
EXTENDS Integers, Sequences, FiniteSets, TLC

VARIABLES bookings, job_rejections, users, email_service, faults, acc, sweep, resp, ops

vars == <<bookings, job_rejections, users, email_service, faults, acc, sweep, resp, ops>>

(***************************************************************************)
(* Bounds of the model                                                     *)
(***************************************************************************)
\* handler invocations in one behaviour
MaxOps == 4

\* cleaner_profile.get('max_bookings_per_day', 3)
MaxJobsDefault == 3
\* JobAssignmentService.max_distance_miles
MaxDistanceMiles == 15
\* JobAssignmentService.max_cleaners_to_try
MaxCleanersToTry == 5
\* calculate_distance: no location data, same area, unknown pair
NoLocationDistance == 999
SameAreaDistance == 2
DefaultDistance == 10

None == "none"

\* the cleaners, in document-id order, and the set of them
CleanerIds == <<"c1", "c2">>
Cleaners == {CleanerIds[i] : i \in 1..Len(CleanerIds)}
Clients == {"u1"}
\* every cleaner document of the users collection, in document-id order
UserIds == <<"c1", "c2", "c3", "c4", "c5", "c6">>
BookingIds == <<"b1", "b2">>
IdSet == {BookingIds[i] : i \in 1..Len(BookingIds)}

(***************************************************************************)
(* models/bookings_simple.py                                               *)
(***************************************************************************)
BookingStatus == {"pending", "confirmed", "in_progress", "completed",
                  "cancelled", "cancelled_by_client", "cancelled_by_cleaner"}

ServiceType == {"regular", "deep", "move_in", "move_out", "one_time"}

\* the statuses the specification lists: the enum and the admin's own variant
SpecStatuses == BookingStatus \cup {"cancelled_admin"}

(***************************************************************************)
(* Pricing                                                                 *)
(***************************************************************************)
\* rates.get(service_type, 25.0), in pounds per hour
Rates(service_type) ==
    CASE service_type = "regular"  -> 25
      [] service_type = "deep"     -> 35
      [] service_type = "move_in"  -> 40
      [] service_type = "move_out" -> 40
      [] service_type = "one_time" -> 30
      [] OTHER                     -> 25

\* a mutant: the 5% tier starts above four hours
CalculatePriceStrictTier(service_type, duration) ==
    LET base_rate == Rates(service_type) * 100
        discounted == IF duration >= 6 THEN (base_rate * 90) \div 100
                      ELSE IF duration > 4 THEN (base_rate * 95) \div 100
                      ELSE base_rate
    IN  discounted * duration

\* BookingService._calculate_price: the hourly rate is discounted first, then
\* multiplied by the duration and rounded to pence
CalculatePrice(service_type, duration) ==
    LET base_rate == Rates(service_type) * 100
        discounted == IF duration >= 6 THEN (base_rate * 90) \div 100
                      ELSE IF duration >= 4 THEN (base_rate * 95) \div 100
                      ELSE base_rate
    IN  discounted * duration

\* create_simple_booking: total_price = rate * duration
SimplePrice(service_type, duration) == Rates(service_type) * 100 * duration

(***************************************************************************)
(* Store primitives                                                        *)
(***************************************************************************)
\* DocumentReference.update(patch): the fields of patch replace the document's
Patch(doc, patch) ==
    [f \in DOMAIN doc |-> IF f \in DOMAIN patch THEN patch[f] ELSE doc[f]]

Exists(b) == b \in DOMAIN bookings

\* uuid4(): an identifier no document has yet
FreshId == BookingIds[Cardinality(DOMAIN bookings) + 1]

CanCreate == Cardinality(DOMAIN bookings) < Len(BookingIds)

\* the body of a booking request: service type, duration, date, time of day
Requests ==
    { [type |-> "deep",    duration |-> 4, date |-> 1, time |-> 10, postcode |-> <<"S", "W", "1">>],
      [type |-> "regular", duration |-> 2, date |-> 1, time |-> 14, postcode |-> <<"S", "W", "1">>] }

\* BookingService.create_booking: the document written for a request; the
\* time is stored as time.isoformat(), "HH:MM:SS"
ServiceBookingDict(client_id, req) ==
    [ client_id  |-> client_id,
      cleaner_id |-> None,
      status     |-> "pending",
      type       |-> req.type,
      duration   |-> req.duration,
      price      |-> CalculatePrice(req.type, req.duration),
      date       |-> req.date,
      time       |-> req.time,
      tfmt       |-> "HH:MM:SS",
      postcode   |-> req.postcode,
      pay        |-> "pending",
      intent     |-> FALSE,
      completed_at |-> None,
      stale      |-> FALSE ]

\* create_simple_booking: the document written for a request; the time is
\* stored as the request's string, "HH:MM"
SimpleBookingData(client_id, req) ==
    [ client_id  |-> client_id,
      cleaner_id |-> None,
      status     |-> "pending",
      type       |-> req.type,
      duration   |-> req.duration,
      price      |-> SimplePrice(req.type, req.duration),
      date       |-> req.date,
      time       |-> req.time,
      tfmt       |-> "HH:MM",
      postcode   |-> req.postcode,
      pay        |-> "pending",
      intent     |-> FALSE,
      completed_at |-> None,
      stale      |-> FALSE ]

(***************************************************************************)
(* Cleaner profiles (users collection).  Read-only to the engine.          *)
(***************************************************************************)
\* the cleaner_profile the two requesting cleaners start with
DefaultProfile(c) ==
    [ services_offered     |-> {},
      location             |-> <<"S", "W", "1">>,
      radius_miles         |-> <<>>,           \* <<r>> when configured
      rating               |-> IF c = "c1" THEN 5 ELSE 4,
      total_jobs           |-> 0,
      blocked_dates        |-> {},
      max_bookings_per_day |-> MaxJobsDefault,
      availability         |-> <<>> ]          \* weekday -> list of windows

\* cleaner_doc.to_dict().get('cleaner_profile', {})
CleanerProfile(c) == users[c]

Idle == [pc |-> "idle", bk |-> None, data |-> None, result |-> None, status |-> None]

SweepIdle == [pc |-> "idle", jobs |-> <<>>, cands |-> <<>>,
              processed |-> 0, assigned |-> 0, failed |-> 0]

\* the last answer of a single-step handler: n counts it among the requests
NoResp == [op |-> None, by |-> None, bk |-> None, res |-> None, n |-> 0]

Init ==
    /\ bookings = <<>>
    /\ job_rejections = {}
    /\ users = [c \in Cleaners |-> DefaultProfile(c)]
    /\ email_service = "up"
    /\ faults = {}
    /\ acc = [c \in Cleaners |-> Idle]
    /\ sweep = SweepIdle
    /\ resp = NoResp
    /\ ops = 0

Respond(op, by, bk, res) ==
    /\ resp' = [op |-> op, by |-> by, bk |-> bk, res |-> res, n |-> ops + 1]
    /\ ops' = ops + 1

\* POST /bookings of app.main: bookings.create_booking -> BookingService.create_booking
CreateBooking(client_id, req) ==
    /\ ops < MaxOps
    /\ CanCreate
    /\ bookings' = (FreshId :> ServiceBookingDict(client_id, req)) @@ bookings
    /\ Respond("create_booking", client_id, FreshId, "created")
    /\ UNCHANGED <<job_rejections, acc, sweep, users, email_service, faults>>

\* POST /bookings of app.main_production_real: simple_bookings.create_simple_booking
CreateSimpleBooking(client_id, req) ==
    /\ ops < MaxOps
    /\ CanCreate
    /\ bookings' = (FreshId :> SimpleBookingData(client_id, req)) @@ bookings
    /\ Respond("create_simple_booking", client_id, FreshId, "created")
    /\ UNCHANGED <<job_rejections, acc, sweep, users, email_service, faults>>

(***************************************************************************)
(* Availability checker: contractors.is_cleaner_available                  *)
(***************************************************************************)
\* datetime.strptime(f"{date} {time}", "%Y-%m-%d %H:%M") accepts "HH:MM" and
\* raises ValueError on "HH:MM:SS" (unconverted data remains)
Strptime(tfmt) == tfmt = "HH:MM"

\* where('cleaner_id', '==', cleaner_id).where('schedule.date', '==', date),
\* streamed in document-id order
RECURSIVE ExistingBookings(_, _, _)
ExistingBookings(i, cleaner_id, date) ==
    IF i > Len(BookingIds) THEN <<>>
    ELSE LET b == BookingIds[i]
             rest == ExistingBookings(i + 1, cleaner_id, date)
         IN  IF Exists(b) /\ bookings[b].cleaner_id = cleaner_id /\ bookings[b].date = date
             THEN <<b>> \o rest ELSE rest

\* a mutant: the overlap test compares the candidate only with its own end
OverlapStartOnly(start, end, existing_start, existing_end) ==
    start < existing_end /\ start >= existing_start

\* booking_datetime < existing_end and booking_end > existing_start
Overlap(start, end, existing_start, existing_end) ==
    start < existing_end /\ end > existing_start

\* the for loop over existing_bookings: "overlap" (return False), "error" (a
\* stored time that does not parse raises), or "clear"
RECURSIVE ScanExisting(_, _, _)
ScanExisting(existing, start, end) ==
    IF existing = <<>> THEN "clear"
    ELSE LET ex == bookings[Head(existing)]
         IN  IF ~Strptime(ex.tfmt) THEN "error"
             ELSE IF Overlap(start, end, ex.time, ex.time + ex.duration) THEN "overlap"
             ELSE ScanExisting(Tail(existing), start, end)

\* len(list(existing_bookings)) after the for loop has consumed the stream
JobsCount(existing) == 0

\* datetime.strptime(date, "%Y-%m-%d").weekday(): dates are day numbers
\* counted from a Monday
Weekday(date) == date % 7

\* availability.get(str(weekday), {})
DayAvailability(availability, date) ==
    IF Weekday(date) \in DOMAIN availability THEN availability[Weekday(date)] ELSE <<>>

\* lines 204-215: nothing is checked for an empty day_availability; a
\* non-empty one is the list update_availability stored, and
\* day_availability.get('start_time') raises AttributeError on a list
WorkingHours(day_availability, start, end) ==
    IF day_availability = <<>> THEN "open" ELSE "error"

\* a mutant: a failure of the check counts as unavailable
OnCheckErrorUnavailable == FALSE

\* except Exception: return True  # Default to available if check fails
OnCheckError == TRUE

IsCleanerAvailable(cleaner_id, date, time, tfmt, duration) ==
    IF ~Strptime(tfmt) THEN OnCheckError
    ELSE LET existing == ExistingBookings(1, cleaner_id, date)
             scan == ScanExisting(existing, time, time + duration)
             profile == CleanerProfile(cleaner_id)
         IN  IF scan = "error" THEN OnCheckError
             ELSE IF scan = "overlap" THEN FALSE
             ELSE IF date \in profile.blocked_dates THEN FALSE
             ELSE IF JobsCount(existing) >= profile.max_bookings_per_day THEN FALSE
             ELSE IF WorkingHours(DayAvailability(profile.availability, date),
                                  time, time + duration) = "error"
             THEN OnCheckError
             ELSE TRUE

(***************************************************************************)
(* Notifications: the e-mail to the client after an assignment             *)
(***************************************************************************)
\* the notification block (read the client's and the cleaner's user document,
\* build the details, hand email_service.send_cleaner_assigned to the event
\* loop): it raises while the service it depends on is down
SendCleanerAssigned == IF email_service = "up" THEN "sent" ELSE "raised"

\* the environment: the e-mail service goes down or comes back
EmailOutage ==
    /\ email_service' = IF email_service = "up" THEN "down" ELSE "up"
    /\ UNCHANGED <<bookings, job_rejections, users, faults, acc, sweep, resp, ops>>

\* a mutant: an exception of the notification fails the acceptance
AcceptJobResultPropagates(notification) ==
    IF notification = "raised" THEN "error" ELSE "success"

\* accept_job, lines 285-346: the notification runs inside try/except, the
\* handler logs the failure and returns "Job accepted successfully"
AcceptJobResult(notification) == "success"

\* auto_assign_job, lines 108-112: send_auto_assignment_notifications
\* catches every exception of its body, and the job returns True
AutoAssignResult(notification) == TRUE

(***************************************************************************)
(* Manual accept: contractors.accept_job, one step per store call          *)
(***************************************************************************)
\* a cleaner has one request in flight at a time
Free(c) == acc[c].pc \in {"idle", "done"}

Done(b, result, status) ==
    [pc |-> "done", bk |-> b, data |-> None, result |-> result, status |-> status]

\* a mutant: the query does not ask for an unassigned booking
AcceptJobQueryAnyCleaner(b) == Exists(b) /\ bookings[b].status = "pending"

\* where('booking_id', '==', booking_id).where('status', '==', 'pending')
\*     .where('cleaner_id', '==', None)
AcceptJobQuery(b) ==
    Exists(b) /\ bookings[b].status = "pending" /\ bookings[b].cleaner_id = None

\* payment_status == 'succeeded' or booking_data.get('status') == 'paid'
IsPaid(data) == data.pay = "succeeded" \/ data.status = "paid"

\* a mutant: acceptance confirms the booking whatever the payment status
AcceptUpdateDataAlwaysConfirmed(data, cleaner_id) ==
    [cleaner_id |-> cleaner_id, status |-> "confirmed"]

\* update_data of accept_job
AcceptUpdateData(data, cleaner_id) ==
    IF IsPaid(data) THEN [cleaner_id |-> cleaner_id, status |-> "confirmed"]
    ELSE [cleaner_id |-> cleaner_id]

\* lines 234-246: the query; 404 when it finds nothing
AcceptFind(c, b) ==
    /\ ops < MaxOps
    /\ Free(c)
    /\ acc' = [acc EXCEPT ![c] =
                 IF AcceptJobQuery(b)
                 THEN [pc |-> "check", bk |-> b, data |-> bookings[b],
                       result |-> None, status |-> None]
                 ELSE Done(b, "not_found", None)]
    /\ ops' = ops + 1
    /\ UNCHANGED <<bookings, job_rejections, sweep, resp, users, email_service, faults>>

\* lines 248-257: the availability re-check; 400 when it fails
AcceptCheck(c) ==
    /\ acc[c].pc = "check"
    /\ LET d == acc[c].data
       IN  acc' = [acc EXCEPT ![c] =
                     IF IsCleanerAvailable(c, d.date, d.time, d.tfmt, d.duration)
                     THEN [@ EXCEPT !.pc = "update"]
                     ELSE Done(acc[c].bk, "unavailable", None)]
    /\ UNCHANGED <<bookings, job_rejections, sweep, resp, ops, users, email_service, faults>>

\* lines 259-278: booking_doc.reference.update(update_data), unconditional
AcceptUpdate(c) ==
    /\ acc[c].pc = "update"
    /\ bookings' = [bookings EXCEPT ![acc[c].bk] =
                      Patch(@, AcceptUpdateData(acc[c].data, c))]
    /\ acc' = [acc EXCEPT ![c].pc = "clear"]
    /\ UNCHANGED <<job_rejections, sweep, resp, ops, users, email_service, faults>>

\* a mutant: the rejection record is left in place
AcceptClearKeeps(rejections, c, b) == rejections

\* lines 280-283: remove any existing rejection record
AcceptClear(rejections, c, b) == rejections \ {<<c, b>>}

\* lines 280-346: clear the rejection record, notify, return final_status
AcceptReturn(c) ==
    /\ acc[c].pc = "clear"
    /\ job_rejections' = AcceptClear(job_rejections, c, acc[c].bk)
    /\ acc' = [acc EXCEPT ![c] =
                 Done(acc[c].bk, AcceptJobResult(SendCleanerAssigned),
                      IF IsPaid(acc[c].data) THEN "confirmed" ELSE "pending")]
    /\ UNCHANGED <<bookings, sweep, resp, ops, users, email_service, faults>>

(***************************************************************************)
(* Availability settings: contractors.update_availability                  *)
(***************************************************************************)
\* the lists of AvailabilitySlot a cleaner sends: none, a window on the
\* weekday of the bookings that holds them, one that does not, one on
\* another weekday
SlotLists ==
    { <<>>,
      <<[day_of_week |-> 1, start_time |-> 9, end_time |-> 17]>>,
      <<[day_of_week |-> 1, start_time |-> 8, end_time |-> 12]>>,
      <<[day_of_week |-> 2, start_time |-> 9, end_time |-> 17]>> }

\* UpdateAvailability bodies; max_bookings_per_day 0 stands for 0 or absent
AvailabilityData ==
    [availability : SlotLists, blocked_dates : {{}, {1}}, max_bookings_per_day : {0, 1}]

\* the slots of one day, in the order sent
DaySlots(slots, d) == SelectSeq(slots, LAMBDA slot : slot.day_of_week = d)

\* lines 441-449: availability_dict, for each day_of_week sent the list of
\* its {start_time, end_time}
AvailabilityDict(slots) ==
    [d \in {slots[i].day_of_week : i \in 1..Len(slots)} |->
        [i \in 1..Len(DaySlots(slots, d)) |->
            [start_time |-> DaySlots(slots, d)[i].start_time,
             end_time   |-> DaySlots(slots, d)[i].end_time]]]

\* PUT /contractors/availability
UpdateAvailability(c, availability_data) ==
    /\ ops < MaxOps
    /\ Free(c)
    /\ users' = [users EXCEPT ![c] =
                   Patch(@, [availability |-> AvailabilityDict(availability_data.availability),
                             blocked_dates |-> availability_data.blocked_dates,
                             max_bookings_per_day |->
                                IF availability_data.max_bookings_per_day = 0
                                THEN MaxJobsDefault
                                ELSE availability_data.max_bookings_per_day])]
    /\ Respond("update_availability", c, None, "updated")
    /\ UNCHANGED <<bookings, job_rejections, acc, sweep, email_service, faults>>

(***************************************************************************)
(* Manual reject: contractors.reject_job                                   *)
(***************************************************************************)
\* where('booking_id', '==', booking_id).where('status', '==', 'pending')
RejectJobQuery(b) == Exists(b) /\ bookings[b].status = "pending"

\* a mutant: the booking is not looked up at all
RejectJobResultUnchecked(c, b) ==
    IF <<c, b>> \in job_rejections THEN "already_rejected" ELSE "rejected"

\* 404 when the booking is not pending, "Job already rejected" when the
\* record exists, "Job rejected successfully" after writing it
RejectJobResult(c, b) ==
    IF ~RejectJobQuery(b) THEN "not_found"
    ELSE IF <<c, b>> \in job_rejections THEN "already_rejected"
    ELSE "rejected"

RejectJob(c, b) ==
    /\ ops < MaxOps
    /\ Free(c)
    /\ job_rejections' = IF RejectJobResult(c, b) = "rejected"
                         THEN job_rejections \cup {<<c, b>>}
                         ELSE job_rejections
    /\ Respond("reject_job", c, b, RejectJobResult(c, b))
    /\ UNCHANGED <<bookings, acc, sweep, users, email_service, faults>>

(***************************************************************************)
(* Service-layer assignment: BookingService.accept_job_offer               *)
(***************************************************************************)
\* a mutant: the repository leaves the status alone
AssignCleanerKeepsStatus(cleaner_id) == [cleaner_id |-> cleaner_id]

\* a mutant: the repository confirms the booking without recording the cleaner
AssignCleanerStatusOnly(cleaner_id) == [status |-> "confirmed"]

\* BookingRepository.assign_cleaner: update_data
AssignCleaner(cleaner_id) == [cleaner_id |-> cleaner_id, status |-> "confirmed"]

\* BookingService.assign_cleaner_to_booking: the booking must be pending
AcceptJobOffer(c, b) ==
    /\ ops < MaxOps
    /\ Free(c)
    /\ IF Exists(b) /\ bookings[b].status = "pending"
       THEN /\ bookings' = [bookings EXCEPT ![b] = Patch(@, AssignCleaner(c))]
            /\ Respond("accept_job_offer", c, b, "assigned")
       ELSE /\ UNCHANGED bookings
            /\ Respond("accept_job_offer", c, b, "refused")
    /\ UNCHANGED <<job_rejections, acc, sweep, users, email_service, faults>>

(***************************************************************************)
(* Cancellation                                                            *)
(***************************************************************************)
\* BookingService.get_booking_by_id: the access check
GetBookingById(b, user_id, user_role) ==
    /\ Exists(b)
    /\ user_role = "client" => bookings[b].client_id = user_id
    /\ user_role = "cleaner" => bookings[b].cleaner_id = user_id

\* a mutant: every cancelled variant blocks a further cancellation
ServiceCancellableStrict(status) ==
    /\ status \in BookingStatus
    /\ status \notin {"completed", "cancelled", "cancelled_by_client",
                      "cancelled_by_cleaner"}

\* BookingStatus(booking.get('status')) raises ValueError outside the enum;
\* current_status in [COMPLETED, CANCELLED] refuses
ServiceCancellable(status) ==
    /\ status \in BookingStatus
    /\ status \notin {"completed", "cancelled"}

\* the cancelled variant BookingService.cancel_booking writes for a role
CancelStatus(user_role) ==
    IF user_role = "client" THEN "cancelled_by_client"
    ELSE IF user_role = "cleaner" THEN "cancelled_by_cleaner"
    ELSE "cancelled"

\* who may call: the clients, the cleaners and an admin, each with its role
Callers == {<<u, "client">> : u \in Clients} \cup {<<c, "cleaner">> : c \in Cleaners}
           \cup {<<"admin", "admin">>}

\* POST /bookings/{id}/cancel of app.main: BookingService.cancel_booking
CancelBooking(b, user_id, user_role) ==
    /\ ops < MaxOps
    /\ user_role = "cleaner" => Free(user_id)
    /\ IF GetBookingById(b, user_id, user_role) /\ ServiceCancellable(bookings[b].status)
       THEN /\ bookings' = [bookings EXCEPT ![b] =
                              Patch(@, [status |-> CancelStatus(user_role)])]
            /\ Respond("cancel_booking", user_id, b, "cancelled")
       ELSE /\ UNCHANGED bookings
            /\ Respond("cancel_booking", user_id, b, "unable")
    /\ UNCHANGED <<job_rejections, acc, sweep, users, email_service, faults>>

\* a mutant: every cancelled variant blocks a further cancellation
SimpleCancellableStrict(status) ==
    status \notin {"cancelled", "completed", "cancelled_by_client",
                   "cancelled_by_cleaner", "cancelled_admin"}

\* current_status in ["cancelled", "completed"] refuses
SimpleCancellable(status) == status \notin {"cancelled", "completed"}

\* POST /bookings/{id}/cancel of app.main_production_real: simple_bookings.cancel_booking
SimpleCancelBooking(b, user_id) ==
    /\ ops < MaxOps
    /\ IF ~(Exists(b) /\ bookings[b].client_id = user_id)
       THEN /\ UNCHANGED bookings
            /\ Respond("simple_cancel_booking", user_id, b, "not_found")
       ELSE IF ~SimpleCancellable(bookings[b].status)
       THEN /\ UNCHANGED bookings
            /\ Respond("simple_cancel_booking", user_id, b, "invalid")
       ELSE /\ bookings' = [bookings EXCEPT ![b] = Patch(@, [status |-> "cancelled"])]
            /\ Respond("simple_cancel_booking", user_id, b, "cancelled")
    /\ UNCHANGED <<job_rejections, acc, sweep, users, email_service, faults>>

(***************************************************************************)
(* Completion: contractors.complete_job                                    *)
(***************************************************************************)
\* a mutant: any status can be completed
CompletableAny(status) == TRUE

\* current_status not in ['confirmed', 'in_progress'] refuses
Completable(status) == status \in {"confirmed", "in_progress"}

CompleteJob(c, b) ==
    /\ ops < MaxOps
    /\ Free(c)
    /\ IF ~(Exists(b) /\ bookings[b].cleaner_id = c)
       THEN /\ UNCHANGED bookings
            /\ Respond("complete_job", c, b, "not_found")
       ELSE IF ~Completable(bookings[b].status)
       THEN /\ UNCHANGED bookings
            /\ Respond("complete_job", c, b, "invalid")
       ELSE /\ bookings' = [bookings EXCEPT ![b] =
                              Patch(@, [status |-> "completed", completed_at |-> "set"])]
            /\ Respond("complete_job", c, b, "completed")
    /\ UNCHANGED <<job_rejections, acc, sweep, users, email_service, faults>>

(***************************************************************************)
(* Payments: payments.py and webhooks.stripe_webhook                       *)
(***************************************************************************)
\* POST /payments/create-intent
CreatePaymentIntent(b, user_id) ==
    /\ ops < MaxOps
    /\ IF /\ Exists(b)
          /\ bookings[b].client_id = user_id
          /\ bookings[b].status \in {"confirmed", "pending"}
          /\ bookings[b].pay # "succeeded"
       THEN /\ bookings' = [bookings EXCEPT ![b] =
                              Patch(@, [pay |-> "pending", intent |-> TRUE])]
            /\ Respond("create_payment_intent", user_id, b, "created")
       ELSE /\ UNCHANGED bookings
            /\ Respond("create_payment_intent", user_id, b, "refused")
    /\ UNCHANGED <<job_rejections, acc, sweep, users, email_service, faults>>

\* a mutant: a successful payment leaves the booking status alone
PaidUpdateKeepsStatus(payment_status) == [pay |-> payment_status]

\* a mutant: a successful payment confirms the booking
PaidUpdateConfirms(payment_status) == [pay |-> payment_status, status |-> "confirmed"]

\* the update written when a payment has succeeded (webhooks.py 64-68,
\* payments.py 156-163)
PaidUpdate(payment_status) == [pay |-> payment_status, status |-> "paid"]

\* the statuses a retrieved PaymentIntent reports
IntentStatuses == {"succeeded", "processing"}

\* POST /payments/confirm-payment, for an intent created for this booking
ConfirmPayment(b, intent_status) ==
    /\ ops < MaxOps
    /\ Exists(b) /\ bookings[b].intent
    /\ bookings[b].pay # "refunded"
    /\ intent_status = "processing" => bookings[b].pay # "succeeded"
    /\ bookings' = [bookings EXCEPT ![b] =
                      Patch(@, IF intent_status = "succeeded"
                               THEN PaidUpdate(intent_status)
                               ELSE [pay |-> intent_status])]
    /\ Respond("confirm_payment", None, b, intent_status)
    /\ UNCHANGED <<job_rejections, acc, sweep, users, email_service, faults>>

\* a mutant: a refund leaves the booking status alone
RefundUpdateKeepsStatus == [pay |-> "refunded"]

\* charge.refunded: the update written
RefundUpdate == [pay |-> "refunded", status |-> "cancelled"]

EventTypes == {"payment_intent.succeeded", "payment_intent.payment_failed",
               "charge.refunded"}

\* POST /webhooks/stripe: the events the processor sends for a booking's intent
StripeWebhook(b, event_type) ==
    /\ ops < MaxOps
    /\ Exists(b) /\ bookings[b].intent
    /\ bookings[b].pay # "refunded"
    /\ event_type = "payment_intent.payment_failed" => bookings[b].pay # "succeeded"
    /\ event_type = "charge.refunded" => bookings[b].pay = "succeeded"
    /\ bookings' = [bookings EXCEPT ![b] =
                      Patch(@, CASE event_type = "payment_intent.succeeded" ->
                                        PaidUpdate("succeeded")
                                 [] event_type = "payment_intent.payment_failed" ->
                                        [pay |-> "failed"]
                                 [] event_type = "charge.refunded" -> RefundUpdate)]
    /\ Respond("stripe_webhook", None, b, event_type)
    /\ UNCHANGED <<job_rejections, acc, sweep, users, email_service, faults>>

(***************************************************************************)
(* Distance estimator: JobAssignmentService.calculate_distance             *)
(* A postcode is a sequence of characters; <<>> is a missing one.          *)
(***************************************************************************)
Prefix(postcode, n) == SubSeq(postcode, 1, IF Len(postcode) < n THEN Len(postcode) ELSE n)

\* london_distances, looked up by the pair of two-character prefixes
LondonDistances(p1, p2) ==
    CASE p1 = p2 /\ p1 \in {<<"S", "W">>, <<"N">>, <<"E">>, <<"W">>,
                            <<"N", "W">>, <<"S", "E">>}              -> 4
      [] p1 = p2 /\ p1 \in {<<"E", "C">>, <<"W", "C">>}              -> 2
      [] p1 = <<"S", "W">> /\ p2 = <<"S", "E">>                      -> 8
      [] p1 = <<"N">> /\ p2 = <<"S">>                                -> 10
      [] p1 = <<"E">> /\ p2 = <<"W">>                                -> 12
      [] p1 = <<"N", "W">> /\ p2 = <<"S", "E">>                      -> 15
      [] OTHER                                                       -> -1

CalculateDistance(location1, location2) ==
    LET postcode1 == Prefix(location1, 3)
        postcode2 == Prefix(location2, 3)
        prefix1 == Prefix(postcode1, 2)
        prefix2 == Prefix(postcode2, 2)
    IN  IF postcode1 = <<>> \/ postcode2 = <<>> THEN NoLocationDistance
        ELSE IF postcode1 = postcode2 THEN SameAreaDistance
        ELSE IF LondonDistances(prefix1, prefix2) >= 0 THEN LondonDistances(prefix1, prefix2)
        ELSE IF LondonDistances(prefix2, prefix1) >= 0 THEN LondonDistances(prefix2, prefix1)
        ELSE DefaultDistance

(***************************************************************************)
(* Candidate ranker: JobAssignmentService.find_suitable_cleaners           *)
(***************************************************************************)
\* the entry appended for a cleaner that passes the filters
Candidate(c, job_data) ==
    [ uid        |-> c,
      distance   |-> CalculateDistance(CleanerProfile(c).location, job_data.postcode),
      rating     |-> CleanerProfile(c).rating,
      total_jobs |-> CleanerProfile(c).total_jobs ]

\* a mutant: the service type is not looked at
ServiceCompatibleAlways(c, job_data) == TRUE

\* services_offered and service_type not in services_offered: skipped
ServiceCompatible(c, job_data) ==
    CleanerProfile(c).services_offered = {} \/ job_data.type \in CleanerProfile(c).services_offered

\* distance > max_radius or distance > self.max_distance_miles: skipped
WithinRadius(c, job_data) ==
    LET distance == CalculateDistance(CleanerProfile(c).location, job_data.postcode)
        max_radius == IF CleanerProfile(c).radius_miles = <<>> THEN MaxDistanceMiles
                      ELSE CleanerProfile(c).radius_miles[1]
    IN  ~(distance > max_radius \/ distance > MaxDistanceMiles)

\* a mutant: the candidates are sorted by distance alone
KeyLessByDistance(x, y) == x.distance < y.distance

\* the sort key (-rating, -total_jobs, distance), compared as tuples
KeyLess(x, y) ==
    \/ x.rating > y.rating
    \/ x.rating = y.rating /\ x.total_jobs > y.total_jobs
    \/ x.rating = y.rating /\ x.total_jobs = y.total_jobs /\ x.distance < y.distance

\* list.sort is stable: an entry goes after every entry that is not greater
RECURSIVE InsertSorted(_, _)
InsertSorted(sorted, x) ==
    IF sorted = <<>> THEN <<x>>
    ELSE IF KeyLess(x, Head(sorted)) THEN <<x>> \o sorted
    ELSE <<Head(sorted)>> \o InsertSorted(Tail(sorted), x)

RECURSIVE SortCandidates(_)
SortCandidates(list) ==
    IF list = <<>> THEN <<>>
    ELSE InsertSorted(SortCandidates(SubSeq(list, 1, Len(list) - 1)), list[Len(list)])

\* the cleaners that pass the filters, in stream order
RECURSIVE SuitableFrom(_, _)
SuitableFrom(i, job_data) ==
    IF i > Len(UserIds) THEN <<>>
    ELSE LET c == UserIds[i]
             rest == SuitableFrom(i + 1, job_data)
         IN  IF c \in DOMAIN users /\ ServiceCompatible(c, job_data)
                /\ WithinRadius(c, job_data)
             THEN <<Candidate(c, job_data)>> \o rest ELSE rest

FindSuitableCleaners(job_data) ==
    LET sorted == SortCandidates(SuitableFrom(1, job_data))
    IN  SubSeq(sorted, 1, IF Len(sorted) < MaxCleanersToTry THEN Len(sorted)
                          ELSE MaxCleanersToTry)

(***************************************************************************)
(* Auto-assignment sweep: JobAssignmentService.process_pending_jobs        *)
(***************************************************************************)
\* time passes: every booking made so far is now older than the timeout
Tick ==
    /\ \E b \in DOMAIN bookings : ~bookings[b].stale
    /\ bookings' = [b \in DOMAIN bookings |-> [bookings[b] EXCEPT !.stale = TRUE]]
    /\ UNCHANGED <<job_rejections, acc, sweep, resp, ops, users, email_service, faults>>

\* where('status', '==', 'pending').where('cleaner_id', '==', None)
\*     .where('created_at', '<', cutoff_time)
PendingJobQuery(b) ==
    /\ Exists(b)
    /\ bookings[b].status = "pending"
    /\ bookings[b].cleaner_id = None
    /\ bookings[b].stale

\* the documents the query streams, each with the data read at that moment
RECURSIVE PendingJobs(_)
PendingJobs(i) ==
    IF i > Len(BookingIds) THEN <<>>
    ELSE LET b == BookingIds[i]
         IN  IF PendingJobQuery(b) THEN <<[id |-> b, data |-> bookings[b]]>> \o PendingJobs(i + 1)
             ELSE PendingJobs(i + 1)

\* lines 21-38: the query and the zeroed statistics
SweepStart ==
    /\ ops < MaxOps
    /\ sweep.pc \in {"idle", "done"}
    /\ sweep' = [pc |-> "next", jobs |-> PendingJobs(1), cands |-> <<>>,
                 processed |-> 0, assigned |-> 0, failed |-> 0]
    /\ ops' = ops + 1
    /\ UNCHANGED <<bookings, job_rejections, acc, resp, users, email_service, faults>>

\* a mutant: a job that exhausts its candidates is dropped uncounted
JobFailedUncounted == [sweep EXCEPT !.jobs = Tail(@), !.cands = <<>>, !.pc = "next"]

\* the job failed: the loop of process_pending_jobs moves on
JobFailed == [sweep EXCEPT !.jobs = Tail(@), !.cands = <<>>, !.failed = @ + 1,
                           !.pc = "next"]

\* a mutant: an exception in one job leaves the loop, and the sweep returns
\* the zeroed statistics of its own except branch
OnJobErrorAborts ==
    [sweep EXCEPT !.jobs = <<>>, !.cands = <<>>, !.processed = 0, !.assigned = 0,
                  !.failed = 0, !.pc = "done"]

\* auto_assign_job, lines 117-119: except Exception: return False; the job
\* counts as failed and the loop of process_pending_jobs moves on
OnJobError == JobFailed

\* find_suitable_cleaners, lines 174-176: except Exception: return []
RankOrEmpty(job) ==
    IF <<job.id, "rank">> \in faults THEN <<>> ELSE FindSuitableCleaners(job.data)

\* lines 40-48 and 69-74: take the next job, count it, rank its candidates;
\* lines 57-58: return the statistics when no job is left
SweepNext ==
    /\ sweep.pc = "next"
    /\ IF sweep.jobs = <<>>
       THEN sweep' = [sweep EXCEPT !.pc = "done"]
       ELSE LET suitable == RankOrEmpty(Head(sweep.jobs))
                counted == [sweep EXCEPT !.processed = @ + 1]
            IN  sweep' = IF suitable = <<>>
                         THEN [counted EXCEPT !.jobs = Tail(@), !.failed = @ + 1]
                         ELSE [counted EXCEPT !.cands = suitable, !.pc = "try"]
    /\ UNCHANGED <<bookings, job_rejections, acc, resp, ops, users, email_service, faults>>

\* lines 77-86: the first candidate is skipped when it has rejected the job
\* or is not available; otherwise the job goes to it
SweepTry ==
    /\ sweep.pc = "try"
    /\ LET job == Head(sweep.jobs)
           c == Head(sweep.cands).uid
           d == job.data
       IN  sweep' =
             IF <<c, job.id>> \notin job_rejections
                /\ IsCleanerAvailable(c, d.date, d.time, d.tfmt, d.duration)
             THEN [sweep EXCEPT !.pc = "commit"]
             ELSE IF Len(sweep.cands) > 1 THEN [sweep EXCEPT !.cands = Tail(@)]
             ELSE JobFailed
    /\ UNCHANGED <<bookings, job_rejections, acc, resp, ops, users, email_service, faults>>

\* a mutant: the sweep confirms the booking whatever the payment status
AutoAssignUpdateDataAlwaysConfirmed(job_data, cleaner_id) ==
    [cleaner_id |-> cleaner_id, status |-> "confirmed"]

\* update_data of auto_assign_job
AutoAssignUpdateData(job_data, cleaner_id) ==
    IF IsPaid(job_data) THEN [cleaner_id |-> cleaner_id, status |-> "confirmed"]
    ELSE [cleaner_id |-> cleaner_id]

\* lines 87-112: booking_ref.update(update_data), unconditional, then the
\* notification; the job counts as assigned when auto_assign_job returns True.
\* An update that raises writes nothing and is caught at lines 117-119.
SweepCommit ==
    /\ sweep.pc = "commit"
    /\ LET job == Head(sweep.jobs)
           c == Head(sweep.cands).uid
       IN  IF <<job.id, "update">> \in faults
           THEN /\ UNCHANGED bookings
                /\ sweep' = OnJobError
           ELSE /\ bookings' = [bookings EXCEPT ![job.id] =
                                  Patch(@, AutoAssignUpdateData(job.data, c))]
                /\ sweep' = IF AutoAssignResult(SendCleanerAssigned)
                             THEN [sweep EXCEPT !.jobs = Tail(@), !.cands = <<>>,
                                                !.assigned = @ + 1, !.pc = "next"]
                             ELSE JobFailed
    /\ UNCHANGED <<job_rejections, acc, resp, ops, users, email_service, faults>>

(***************************************************************************)
(* Admin: admin.update_booking_status and admin.cancel_booking             *)
(***************************************************************************)
\* BookingStatusUpdateRequest.validate_status: allowed_statuses
AdminStatuses == {"pending", "confirmed", "in_progress", "completed", "cancelled"}

\* a mutant: a terminal status can be left
AdminTransitionAny(old_status, new_status) == old_status # new_status

\* old_status == new_status is refused, and so is leaving completed or
\* cancelled for pending, confirmed or in_progress (invalid_transitions)
AdminTransitionAllowed(old_status, new_status) ==
    /\ old_status # new_status
    /\ ~(old_status \in {"completed", "cancelled"}
         /\ new_status \in {"pending", "confirmed", "in_progress"})

AdminUpdateBookingStatus(b, new_status) ==
    /\ ops < MaxOps
    /\ Exists(b)
    /\ IF AdminTransitionAllowed(bookings[b].status, new_status)
       THEN /\ bookings' = [bookings EXCEPT ![b] = Patch(@, [status |-> new_status])]
            /\ Respond("update_booking_status", "admin", b, "updated")
       ELSE /\ UNCHANGED bookings
            /\ Respond("update_booking_status", "admin", b, "invalid")
    /\ UNCHANGED <<job_rejections, acc, sweep, users, email_service, faults>>

\* old_status in ["completed", "cancelled", "cancelled_admin"] refuses
AdminCancellable(status) == status \notin {"completed", "cancelled", "cancelled_admin"}

AdminCancelBooking(b) ==
    /\ ops < MaxOps
    /\ Exists(b)
    /\ IF AdminCancellable(bookings[b].status)
       THEN /\ bookings' = [bookings EXCEPT ![b] = Patch(@, [status |-> "cancelled_admin"])]
            /\ Respond("admin_cancel_booking", "admin", b, "cancelled")
       ELSE /\ UNCHANGED bookings
            /\ Respond("admin_cancel_booking", "admin", b, "invalid")
    /\ UNCHANGED <<job_rejections, acc, sweep, users, email_service, faults>>

\* old_status == "completed" and old_status in ["cancelled",
\* "cancelled_admin"] refuse
ForceCompletable(status) == status \notin {"completed", "cancelled", "cancelled_admin"}

\* POST /admin/bookings/{booking_id}/force-complete
AdminForceCompleteBooking(b) ==
    /\ ops < MaxOps
    /\ Exists(b)
    /\ IF ForceCompletable(bookings[b].status)
       THEN /\ bookings' = [bookings EXCEPT ![b] =
                              Patch(@, [status |-> "completed", completed_at |-> "set"])]
            /\ Respond("force_complete_booking", "admin", b, "completed")
       ELSE /\ UNCHANGED bookings
            /\ Respond("force_complete_booking", "admin", b, "invalid")
    /\ UNCHANGED <<job_rejections, acc, sweep, users, email_service, faults>>

\* the engine: every operation but the admin's
Engine ==
    \/ \E u \in Clients, req \in Requests : CreateBooking(u, req)
    \/ \E u \in Clients, req \in Requests : CreateSimpleBooking(u, req)
    \/ \E c \in Cleaners, b \in IdSet : AcceptFind(c, b)
    \/ \E c \in Cleaners : AcceptCheck(c)
    \/ \E c \in Cleaners : AcceptUpdate(c)
    \/ \E c \in Cleaners : AcceptReturn(c)
    \/ \E c \in Cleaners, b \in IdSet : RejectJob(c, b)
    \/ \E c \in Cleaners, b \in IdSet : AcceptJobOffer(c, b)
    \/ \E b \in IdSet, who \in Callers : CancelBooking(b, who[1], who[2])
    \/ \E b \in IdSet, u \in Clients : SimpleCancelBooking(b, u)
    \/ \E c \in Cleaners, b \in IdSet : CompleteJob(c, b)
    \/ \E b \in IdSet, u \in Clients : CreatePaymentIntent(b, u)
    \/ \E b \in IdSet, st \in IntentStatuses : ConfirmPayment(b, st)
    \/ \E b \in IdSet, e \in EventTypes : StripeWebhook(b, e)
    \/ Tick
    \/ SweepStart
    \/ SweepNext
    \/ SweepTry
    \/ SweepCommit

Admin ==
    \/ \E b \in IdSet, st \in AdminStatuses : AdminUpdateBookingStatus(b, st)
    \/ \E b \in IdSet : AdminCancelBooking(b)
    \/ \E b \in IdSet : AdminForceCompleteBooking(b)

Next == Engine \/ Admin

Spec == Init /\ [][Next]_vars

\* the engine without the admin's interventions
SpecEngine == Init /\ [][Engine]_vars


(***************************************************************************)
(* The sweep over a pool of cleaners: the users collection holds six       *)
(* cleaners with profiles of different rating, experience, location and    *)
(* services, one booking is waiting past the timeout, and some of the      *)
(* cleaners have rejected it.                                              *)
(***************************************************************************)
UserSet == {UserIds[i] : i \in 1..Len(UserIds)}

\* the cleaner_profile documents the pool is drawn from
PoolProfiles ==
    { [ services_offered |-> sv, location |-> loc, radius_miles |-> <<>>,
        rating |-> r, total_jobs |-> j, blocked_dates |-> {},
        max_bookings_per_day |-> MaxJobsDefault, availability |-> <<>> ] :
      <<r, j, loc, sv>> \in { <<5, 1, <<"S", "W", "1">>, {}>>,
                              <<5, 1, <<"S", "E", "1">>, {"regular"}>>,
                              <<5, 0, <<"S", "W", "1">>, {}>>,
                              <<4, 2, <<"S", "W", "1">>, {}>> } }

\* the cleaners that have rejected the waiting booking: none, one, or five
RejecterSets == {R \in SUBSET UserSet : Cardinality(R) \in {0, 1, 5}}

PoolInit ==
    /\ \E req \in Requests :
          bookings = ("b1" :> [SimpleBookingData("u1", req) EXCEPT !.stale = TRUE])
    /\ \E R \in RejecterSets : job_rejections = {<<c, "b1">> : c \in R}
    /\ users \in [UserSet -> PoolProfiles]
    /\ email_service = "up"
    /\ faults = {}
    /\ acc = [c \in Cleaners |-> Idle]
    /\ sweep = SweepIdle
    /\ resp = NoResp
    /\ ops = MaxOps - 2          \* two sweeps are left to run

PoolNext ==
    \/ SweepStart
    \/ SweepNext
    \/ SweepTry
    \/ SweepCommit

SpecPool == PoolInit /\ [][PoolNext]_vars

(***************************************************************************)
(* Assignment while the e-mail service comes and goes: bookings are        *)
(* waiting, cleaners accept them and the sweep runs.                       *)
(***************************************************************************)
\* the bookings waiting at the start, new or older than the timeout
WaitingBookings ==
    { [doc EXCEPT !.stale = st] :
        doc \in {ServiceBookingDict("u1", req) : req \in Requests}
                 \cup {SimpleBookingData("u1", req) : req \in Requests},
        st \in BOOLEAN }

NotifyInit ==
    /\ \E d1, d2 \in WaitingBookings : bookings = ("b1" :> d1) @@ ("b2" :> d2)
    /\ job_rejections = {}
    /\ users = [c \in Cleaners |-> DefaultProfile(c)]
    /\ email_service \in {"up", "down"}
    /\ faults = {}
    /\ acc = [c \in Cleaners |-> Idle]
    /\ sweep = SweepIdle
    /\ resp = NoResp
    /\ ops = MaxOps - 2

NotifyNext ==
    \/ EmailOutage
    \/ \E c \in Cleaners, b \in IdSet : AcceptFind(c, b)
    \/ \E c \in Cleaners : AcceptCheck(c)
    \/ \E c \in Cleaners : AcceptUpdate(c)
    \/ \E c \in Cleaners : AcceptReturn(c)
    \/ SweepStart
    \/ SweepNext
    \/ SweepTry
    \/ SweepCommit

SpecNotify == NotifyInit /\ [][NotifyNext]_vars

(***************************************************************************)
(* The ranker over locations and radii: two cleaners whose profiles have   *)
(* a location or none and a configured radius or none, and one waiting     *)
(* booking whose address has a postcode or none.                           *)
(***************************************************************************)
\* the cleaner_profile documents: location and radius_miles vary
RadiusProfiles ==
    { [ services_offered |-> {}, location |-> loc, radius_miles |-> r,
        rating |-> 5, total_jobs |-> 0, blocked_dates |-> {},
        max_bookings_per_day |-> MaxJobsDefault, availability |-> <<>> ] :
      loc \in {<<>>, <<"N", "W", "1">>, <<"S", "E", "1">>, <<"S", "W", "1">>},
      r \in {<<>>, <<5>>, <<12>>, <<20>>} }

\* the postcode of the waiting booking's address
JobPostcodes == {<<>>, <<"S", "E", "1">>, <<"S", "W", "1">>}

RadiusInit ==
    /\ \E req \in Requests, pc \in JobPostcodes :
          bookings = ("b1" :> [SimpleBookingData("u1", req)
                                 EXCEPT !.stale = TRUE, !.postcode = pc])
    /\ job_rejections = {}
    /\ users \in [Cleaners -> RadiusProfiles]
    /\ email_service = "up"
    /\ faults = {}
    /\ acc = [c \in Cleaners |-> Idle]
    /\ sweep = SweepIdle
    /\ resp = NoResp
    /\ ops = MaxOps - 2

RadiusNext ==
    \/ SweepStart
    \/ SweepNext
    \/ SweepTry
    \/ SweepCommit

SpecRadius == RadiusInit /\ [][RadiusNext]_vars

(***************************************************************************)
(* Availability settings at work: two bookings on one date, the first of   *)
(* them possibly accepted by c1 already; cleaners store their availability *)
(* settings, accept, and the sweep runs.                                   *)
(***************************************************************************)
\* the bookings at the start, older than the timeout
DayBookings ==
    { [doc EXCEPT !.stale = TRUE] :
        doc \in {ServiceBookingDict("u1", req) : req \in Requests}
                 \cup {SimpleBookingData("u1", req) : req \in Requests} }

AvailInit ==
    /\ \E d1, d2 \in DayBookings, holder \in {None, "c1"} :
          bookings = ("b1" :> [d1 EXCEPT !.cleaner_id = holder]) @@ ("b2" :> d2)
    /\ job_rejections = {}
    /\ users = [c \in Cleaners |-> DefaultProfile(c)]
    /\ email_service = "up"
    /\ faults = {}
    /\ acc = [c \in Cleaners |-> Idle]
    /\ sweep = SweepIdle
    /\ resp = NoResp
    /\ ops = MaxOps - 3

AvailNext ==
    \/ \E c \in Cleaners, data \in AvailabilityData : UpdateAvailability(c, data)
    \/ \E c \in Cleaners, b \in IdSet : AcceptFind(c, b)
    \/ \E c \in Cleaners : AcceptCheck(c)
    \/ \E c \in Cleaners : AcceptUpdate(c)
    \/ \E c \in Cleaners : AcceptReturn(c)
    \/ SweepStart
    \/ SweepNext
    \/ SweepTry
    \/ SweepCommit

SpecAvail == AvailInit /\ [][AvailNext]_vars

(***************************************************************************)
(* A sweep with failures: two bookings are waiting, and for some of them   *)
(* the ranking or the store update raises while the sweep processes them.  *)
(***************************************************************************)
\* the steps of auto_assign_job that can raise for a booking
FaultSteps == {"rank", "update"}

FaultInit ==
    /\ \E d1, d2 \in DayBookings : bookings = ("b1" :> d1) @@ ("b2" :> d2)
    /\ job_rejections \in SUBSET ({"c1"} \X {"b1", "b2"})
    /\ users = [c \in Cleaners |-> DefaultProfile(c)]
    /\ email_service = "up"
    /\ faults \in SUBSET ({"b1", "b2"} \X FaultSteps)
    /\ acc = [c \in Cleaners |-> Idle]
    /\ sweep = SweepIdle
    /\ resp = NoResp
    /\ ops = MaxOps - 1          \* one sweep is left to run

FaultNext ==
    \/ SweepStart
    \/ SweepNext
    \/ SweepTry
    \/ SweepCommit

SpecFault == FaultInit /\ [][FaultNext]_vars

(***************************************************************************)
(* Properties                                                              *)
(***************************************************************************)
\* the steps of the multi-step handlers, recognised in a transition
IsAcceptFind(c) == Free(c) /\ acc'[c] # acc[c]
IsAcceptCheck(c) == acc[c].pc = "check" /\ acc'[c].pc # "check"
IsAcceptUpdate(c) == acc[c].pc = "update" /\ acc'[c].pc = "clear"
IsAcceptReturn(c) == acc[c].pc = "clear" /\ acc'[c].pc = "done"
IsSweepCommit == sweep.pc = "commit" /\ sweep'.pc = "next"
\* an atomic handler named op has just answered
Answered(op) == resp'.n = ops + 1 /\ resp'.op = op

Assigned(b) == bookings[b].cleaner_id # None

AtMostOneAcceptSucceeds ==
    \A c1, c2 \in Cleaners :
        (c1 # c2 /\ acc[c1].bk = acc[c2].bk /\ acc[c1].result = "success")
        => acc[c2].result # "success"

\* an accept_job call has written its cleaner_id onto booking b
AcceptWrote(b) ==
    \E c \in Cleaners :
        /\ acc[c].bk = b
        /\ acc[c].pc = "clear" \/ (acc[c].pc = "done" /\ acc[c].result = "success")

\* C3, as stated: the sweep re-reads the booking before it commits, so it never
\* commits an assignment onto a booking accept_job has already written
SweepNeverOverwritesAccept ==
    [][IsSweepCommit => ~AcceptWrote(Head(sweep.jobs).id)]_vars

\* C4, as stated: a confirmed booking has a cleaner and a succeeded payment
ConfirmedIsAssignedAndPaid ==
    \A b \in DOMAIN bookings :
        bookings[b].status = "confirmed" => Assigned(b) /\ bookings[b].pay = "succeeded"

\* C5, as stated: every booking's status is one of the eight listed values
StatusIsListed ==
    \A b \in DOMAIN bookings : bookings[b].status \in SpecStatuses

\* the caller is a party to booking b: its client, its cleaner or an admin
Entitled(b, by) ==
    /\ Exists(b)
    /\ by = "admin" \/ bookings[b].client_id = by \/ bookings[b].cleaner_id = by

\* C6, as stated: a cancellation by an entitled party succeeds from pending,
\* confirmed and in_progress, and fails, leaving the booking unchanged, from
\* completed and from every cancelled variant
CancelFollowsTransitionTable ==
    [][((Answered("cancel_booking") \/ Answered("simple_cancel_booking"))
        /\ Entitled(resp'.bk, resp'.by))
       => LET status == bookings[resp'.bk].status
          IN  /\ status \in {"pending", "confirmed", "in_progress"}
                    => resp'.res = "cancelled"
              /\ status \in {"completed", "cancelled", "cancelled_by_client",
                             "cancelled_by_cleaner", "cancelled_admin"}
                    => resp'.res # "cancelled" /\ bookings' = bookings]_vars

\* C7, as stated: reject_job on an existing booking succeeds every time,
\* leaves the one rejection record of the pair and leaves the booking alone
RejectAlwaysSucceeds ==
    [][(Answered("reject_job") /\ Exists(resp'.bk))
       => /\ resp'.res \in {"rejected", "already_rejected"}
          /\ job_rejections' = job_rejections \cup {<<resp'.by, resp'.bk>>}
          /\ bookings' = bookings]_vars

\* C7, amended: reject_job never modifies a booking; on a pending booking it
\* succeeds every time and leaves the one rejection record of the pair; on a
\* booking that is not pending it fails with not-found and records nothing
RejectIdempotentWhilePending ==
    [][Answered("reject_job")
       => /\ bookings' = bookings
          /\ IF RejectJobQuery(resp'.bk)
             THEN /\ resp'.res \in {"rejected", "already_rejected"}
                  /\ job_rejections' = job_rejections \cup {<<resp'.by, resp'.bk>>}
             ELSE /\ resp'.res = "not_found"
                  /\ job_rejections' = job_rejections]_vars

\* C7: a second reject_job of the same pair has answered "already rejected"
RejectedTwice ==
    /\ resp.op = "reject_job"
    /\ resp.res = "already_rejected"
    /\ <<resp.by, resp.bk>> \in job_rejections
    /\ bookings[resp.bk].status = "pending"

\* C8: an accept_job by a cleaner that has rejected the booking passes the
\* query while the booking is pending and unassigned, passes the availability
\* check while the cleaner is available, writes the cleaner's id, returns
\* success, and leaves no rejection record of the pair
RejectThenAcceptAssigns ==
    [][\A c \in Cleaners :
          /\ (IsAcceptFind(c) /\ <<c, acc'[c].bk>> \in job_rejections
                /\ AcceptJobQuery(acc'[c].bk))
                => acc'[c].pc = "check"
          /\ (IsAcceptCheck(c) /\ <<c, acc[c].bk>> \in job_rejections
                /\ IsCleanerAvailable(c, acc[c].data.date, acc[c].data.time,
                                      acc[c].data.tfmt, acc[c].data.duration))
                => acc'[c].pc = "update"
          /\ IsAcceptUpdate(c) => bookings'[acc[c].bk].cleaner_id = c
          /\ IsAcceptReturn(c) => /\ acc'[c].result = "success"
                                  /\ <<c, acc[c].bk>> \notin job_rejections']_vars

\* C8: the last answer was the cleaner's rejection of the booking, and since
\* then its accept_job has succeeded and removed the record
AcceptedAfterReject ==
    \E c \in Cleaners :
        /\ resp.op = "reject_job" /\ resp.by = c /\ resp.res = "rejected"
        /\ acc[c].pc = "done" /\ acc[c].bk = resp.bk /\ acc[c].result = "success"
        /\ bookings[resp.bk].cleaner_id = c
        /\ <<c, resp.bk>> \notin job_rejections

\* cleaner c repeats the accept_job it has just succeeded with, the booking
\* being as that call left it
IsAcceptRetry(c) ==
    /\ IsAcceptFind(c)
    /\ acc[c].pc = "done" /\ acc[c].result = "success"
    /\ acc'[c].bk = acc[c].bk
    /\ bookings[acc[c].bk].cleaner_id = c
    /\ bookings[acc[c].bk].status = acc[c].status

\* C9, as stated: the second of two accept_job calls in a row changes nothing
\* and reports what the first reported
AcceptRetryReportsSame ==
    [][\A c \in Cleaners :
          IsAcceptRetry(c) => /\ acc'[c].result # "not_found"
                              /\ bookings' = bookings
                              /\ job_rejections' = job_rejections]_vars

\* C9, amended: the second of two accept_job calls in a row changes neither
\* the booking nor the rejection records, and fails with not-found because
\* the booking is no longer unassigned
AcceptRetryChangesNothing ==
    [][\A c \in Cleaners :
          IsAcceptRetry(c) => /\ acc'[c] = Done(acc[c].bk, "not_found", None)
                              /\ bookings' = bookings
                              /\ job_rejections' = job_rejections]_vars

\* C9: a booking was created, a cleaner accepted it and then asked again
AcceptRetried ==
    \E c \in Cleaners :
        /\ ops = 3 /\ resp.op \in {"create_booking", "create_simple_booking"}
        /\ acc[c] = Done(resp.bk, "not_found", None)
        /\ bookings[resp.bk].cleaner_id = c
        /\ DOMAIN bookings = {resp.bk}

\* the discount the specification lists for a duration, in percent of the rate
DiscountPercent(duration) ==
    IF duration < 4 THEN 100 ELSE IF duration < 6 THEN 95 ELSE 90

\* C10, as stated: every booking's price is rate * duration * discount factor
PriceIsDiscounted ==
    \A b \in DOMAIN bookings :
        bookings[b].price =
            Rates(bookings[b].type) * bookings[b].duration
            * DiscountPercent(bookings[b].duration)

\* some booking of the cleaner on that date overlaps [time, time + duration)
HasOverlap(cleaner_id, date, time, duration) ==
    \E b \in DOMAIN bookings :
        /\ bookings[b].cleaner_id = cleaner_id
        /\ bookings[b].date = date
        /\ time < bookings[b].time + bookings[b].duration
        /\ bookings[b].time < time + duration

\* C11, as stated: the availability check of accept_job answers "not
\* available" exactly when a booking of the cleaner on that date overlaps the
\* candidate interval (no date is blocked and no daily limit is reached here)
UnavailableIffOverlap ==
    [][\A c \in Cleaners :
          IsAcceptCheck(c)
          => ((acc'[c].result = "unavailable")
              <=> HasOverlap(c, acc[c].data.date, acc[c].data.time,
                             acc[c].data.duration))]_vars

\* C11: the check has refused a cleaner whose own booking overlaps
RefusedOnOverlap ==
    \E c \in Cleaners :
        /\ acc[c].result = "unavailable"
        /\ HasOverlap(c, bookings[acc[c].bk].date, bookings[acc[c].bk].time,
                      bookings[acc[c].bk].duration)

\* the jobs of a sweep: those counted so far and those still to take
SweepTotal(s) ==
    s.processed + Len(s.jobs) - (IF s.pc \in {"try", "commit"} THEN 1 ELSE 0)

\* C12: a sweep selects the bookings that are pending, unassigned and older
\* than the timeout, counts each of them once as processed, counts a job as
\* assigned exactly when it writes its cleaner_id and as failed when it gives
\* the job up, and ends with jobs_processed = jobs_assigned + jobs_failed
SweepStatsAddUp ==
    [][/\ (sweep.pc \in {"idle", "done"} /\ sweep'.pc = "next")
            => /\ SweepTotal(sweep') =
                     Cardinality({b \in DOMAIN bookings : PendingJobQuery(b)})
               /\ sweep'.processed = 0 /\ sweep'.assigned = 0 /\ sweep'.failed = 0
       /\ sweep.pc \in {"next", "try", "commit"}
            => /\ SweepTotal(sweep') = SweepTotal(sweep)
               /\ sweep'.assigned + sweep'.failed + Len(sweep'.jobs)
                     = sweep.assigned + sweep.failed + Len(sweep.jobs)
               /\ IF IsSweepCommit
                  THEN /\ sweep'.assigned = sweep.assigned + 1
                       /\ bookings'[Head(sweep.jobs).id].cleaner_id
                             = Head(sweep.cands).uid
                  ELSE /\ sweep'.assigned = sweep.assigned
                       /\ sweep' # sweep => bookings' = bookings
       /\ sweep'.pc = "done"
            => /\ sweep'.jobs = <<>>
               /\ sweep'.processed = sweep'.assigned + sweep'.failed]_vars

\* C12: a sweep has ended with two jobs processed, one assigned, one failed
SweepOneAssignedOneFailed ==
    /\ sweep.pc = "done"
    /\ sweep.processed = 2 /\ sweep.assigned = 1 /\ sweep.failed = 1

\* the sweep takes its next job and ranks the candidates for it
IsRanking == sweep.pc = "next" /\ sweep.jobs # <<>>
\* the list the ranker has just returned
Ranked == IF sweep'.pc = "try" THEN sweep'.cands ELSE <<>>
Uids(list) == {list[i].uid : i \in 1..Len(list)}
\* the cleaners that pass the service-type and radius filters for a job
Eligible(job_data) ==
    {c \in DOMAIN users : ServiceCompatible(c, job_data) /\ WithinRadius(c, job_data)}

\* C13, as stated: the list the ranker returns for a booking never holds a
\* cleaner with a rejection record for that booking
RankedNeverRejected ==
    [][IsRanking
       => \A c \in Uids(Ranked) : <<c, Head(sweep.jobs).id>> \notin job_rejections]_vars

\* C14: the ranker leaves out every cleaner whose services_offered is
\* non-empty and lacks the booking's service type, and a cleaner whose list is
\* empty is left out only by the radius filter or by the cut to the top five
ServiceFilterExact ==
    [][IsRanking
       => LET job_data == Head(sweep.jobs).data
          IN  \A c \in DOMAIN users :
                /\ (users[c].services_offered # {}
                    /\ job_data.type \notin users[c].services_offered)
                      => c \notin Uids(Ranked)
                /\ (users[c].services_offered = {} /\ c \notin Uids(Ranked))
                      => \/ ~WithinRadius(c, job_data)
                         \/ Len(Ranked) = MaxCleanersToTry]_vars

\* C14: a deep clean has been ranked while a cleaner offering only regular
\* cleans is in the pool, and the list is not full
RankedWithoutRegularOnly ==
    /\ sweep.pc = "try"
    /\ Head(sweep.jobs).data.type = "deep"
    /\ Len(sweep.cands) = 3
    /\ \E c \in DOMAIN users :
          users[c].services_offered = {"regular"} /\ c \notin Uids(sweep.cands)

\* x ranks strictly before y: rating descending, then completed jobs
\* descending, then distance ascending
RanksBefore(x, y) ==
    \/ x.rating > y.rating
    \/ x.rating = y.rating /\ x.total_jobs > y.total_jobs
    \/ x.rating = y.rating /\ x.total_jobs = y.total_jobs /\ x.distance < y.distance

\* the position of a cleaner in the stream of the users collection
StreamIndex(c) == CHOOSE i \in 1..Len(UserIds) : UserIds[i] = c

\* C15: the ranker returns min(5, n) of the n eligible cleaners, each once, in
\* rank order, no cleaner left out ranking before one returned; cleaners of
\* equal rank keep the order of the stream, so the same pool and booking
\* give the same sequence
RankedIsSortedTopFive ==
    [][IsRanking
       => LET job_data == Head(sweep.jobs).data
              n == Cardinality(Eligible(job_data))
              out == Ranked
          IN  /\ Uids(out) \subseteq Eligible(job_data)
              /\ Len(out) = IF n < 5 THEN n ELSE 5
              /\ Cardinality(Uids(out)) = Len(out)
              /\ \A i \in 1..Len(out) : out[i] = Candidate(out[i].uid, job_data)
              /\ \A i, j \in 1..Len(out) :
                    i < j => /\ ~RanksBefore(out[j], out[i])
                             /\ RanksBefore(out[i], out[j])
                                \/ StreamIndex(out[i].uid) < StreamIndex(out[j].uid)
              /\ \A c \in Eligible(job_data) \ Uids(out) :
                    \A i \in 1..Len(out) :
                       /\ ~RanksBefore(Candidate(c, job_data), out[i])
                       /\ RanksBefore(out[i], Candidate(c, job_data))
                          \/ StreamIndex(out[i].uid) < StreamIndex(c)]_vars

\* C15: six cleaners were eligible, five were returned, and the list runs
\* over two ratings, two experience levels and two distances
RankedFiveOfSix ==
    /\ sweep.pc = "try"
    /\ Len(sweep.cands) = 5
    /\ Cardinality(Eligible(Head(sweep.jobs).data)) = 6
    /\ sweep.cands[1].rating > sweep.cands[5].rating
    /\ \E i \in 1..4 : /\ sweep.cands[i].rating = sweep.cands[i + 1].rating
                       /\ sweep.cands[i].total_jobs > sweep.cands[i + 1].total_jobs
    /\ \E i \in 1..4 : /\ sweep.cands[i].rating = sweep.cands[i + 1].rating
                       /\ sweep.cands[i].total_jobs = sweep.cands[i + 1].total_jobs
                       /\ sweep.cands[i].distance < sweep.cands[i + 1].distance

\* the eligible cleaners that have not rejected the job and are available
Assignable(job) ==
    {c \in Eligible(job.data) :
        /\ <<c, job.id>> \notin job_rejections
        /\ IsCleanerAvailable(c, job.data.date, job.data.time, job.data.tfmt,
                              job.data.duration)}

\* C20, as stated: the sweep gives a job to the highest-ranked eligible
\* cleaner that has not rejected it and is available, and gives a job up only
\* when there is no such cleaner, however many cleaners have rejected it
SweepAssignsBestAssignable ==
    [][/\ IsSweepCommit
            => LET job == Head(sweep.jobs)
                   c == Head(sweep.cands).uid
               IN  /\ c \in Assignable(job)
                   /\ \A d \in Assignable(job) :
                         ~RanksBefore(Candidate(d, job.data), Candidate(c, job.data))
       /\ (sweep.pc \in {"next", "try"} /\ sweep'.failed = sweep.failed + 1)
            => Assignable(Head(sweep.jobs)) = {}]_vars

\* C20: the sweep has assigned the job to a cleaner ranked below one that
\* had rejected it
AssignedPastRejecter ==
    /\ sweep.pc = "done" /\ sweep.assigned = 1
    /\ \E c \in DOMAIN users :
          /\ <<c, "b1">> \in job_rejections
          /\ RanksBefore(Candidate(c, bookings["b1"]),
                         Candidate(bookings["b1"].cleaner_id, bookings["b1"]))

\* C16: a failure of the notification after an assignment, by accept_job or
\* by the sweep, never fails the assignment and never undoes it: with the
\* e-mail service down, accept_job still answers success and leaves the
\* bookings as its update wrote them, and the sweep's job keeps its cleaner
\* and counts as assigned.
NotificationFailureKeepsAssignment ==
    [][ email_service = "down" =>
          /\ \A c \in Cleaners :
                IsAcceptReturn(c) =>
                  /\ acc'[c].result = "success"
                  /\ bookings' = bookings
          /\ IsSweepCommit =>
                LET job == Head(sweep.jobs)
                IN  /\ bookings'[job.id].cleaner_id = Head(sweep.cands).uid
                    /\ sweep'.assigned = sweep.assigned + 1
                    /\ sweep'.failed = sweep.failed ]_vars

\* C16, witness: the e-mail service is down, a cleaner's acceptance has
\* answered success and the booking is theirs, and the sweep has counted an
\* assignment of the other booking.
AssignedWhileEmailDown ==
    /\ email_service = "down"
    /\ \E c \in Cleaners :
          /\ acc[c].pc = "done" /\ acc[c].result = "success"
          /\ bookings[acc[c].bk].cleaner_id = c
    /\ sweep.assigned = 1

\* C17: when accept_job or the sweep assigns a cleaner, the same update sets
\* the status to confirmed if the booking's payment status is succeeded at
\* that moment, and otherwise leaves the status as it is.  (The claim goes on
\* to say that the status reported to the caller equals the status stored;
\* the reported status is computed from the same reading of the payment.)
AssignmentConfirmsIffPaid ==
    [][ /\ \A c \in Cleaners :
              IsAcceptUpdate(c) =>
                bookings'[acc[c].bk].status =
                  IF bookings[acc[c].bk].pay = "succeeded" THEN "confirmed"
                  ELSE bookings[acc[c].bk].status
        /\ IsSweepCommit =>
              LET b == Head(sweep.jobs).id
              IN  bookings'[b].status =
                    IF bookings[b].pay = "succeeded" THEN "confirmed"
                    ELSE bookings[b].status
      ]_vars

\* C18: a booking with status completed has a non-null cleaner_id and a
\* completed_at timestamp, and it was confirmed or in_progress immediately
\* before it became completed, whichever path completed it.
CompletedWasAssignedAndActive ==
    [][ \A b \in DOMAIN bookings' :
          bookings'[b].status = "completed" =>
            /\ bookings'[b].cleaner_id # None
            /\ bookings'[b].completed_at # None
            /\ b \in DOMAIN bookings
            /\ bookings[b].status \in {"completed", "confirmed", "in_progress"}
      ]_vars

\* C18, the case: a cleaner has completed their own confirmed booking.
CompletedByCleaner ==
    /\ resp.op = "complete_job" /\ resp.res = "completed"
    /\ bookings[resp.bk].status = "completed"
    /\ bookings[resp.bk].cleaner_id = resp.by

\* the statuses the specification calls terminal: completed and every
\* cancelled variant
TerminalStatuses == {"completed", "cancelled", "cancelled_by_client",
                     "cancelled_by_cleaner", "cancelled_admin"}

\* C19: terminal statuses are absorbing: once a booking is completed or
\* cancelled in any variant, no later operation changes its status.
TerminalIsAbsorbing ==
    [][ \A b \in DOMAIN bookings :
          bookings[b].status \in TerminalStatuses =>
            bookings'[b].status = bookings[b].status ]_vars

\* the radius the specification gives a cleaner: the configured one, or 10
SpecifiedRadius(c) ==
    IF CleanerProfile(c).radius_miles = <<>> THEN 10
    ELSE CleanerProfile(c).radius_miles[1]

\* C21: every candidate the ranker returns has distance <= min(radius, 15),
\* where a cleaner with no configured radius has radius 10; a cleaner or a
\* booking without location or postcode gets distance 999 and is never a
\* candidate.
CandidatesWithinSpecifiedRadius ==
    [][IsRanking =>
         \A i \in 1..Len(Ranked) :
            LET c == Ranked[i].uid
                job_data == Head(sweep.jobs).data
            IN  /\ Ranked[i].distance <= SpecifiedRadius(c)
                /\ Ranked[i].distance <= MaxDistanceMiles
                /\ CleanerProfile(c).location # <<>>
                /\ job_data.postcode # <<>>]_vars

\* C21, the case: the ranker has returned a cleaner with a configured radius
\* and left out one that is too far and one without location
RankedWithinConfiguredRadius ==
    /\ sweep.pc = "try" /\ Len(sweep.cands) = 1
    /\ users[sweep.cands[1].uid].radius_miles = <<12>>
    /\ sweep.cands[1].distance = 8
    /\ \E c \in Cleaners : users[c].location = <<>>

\* the bookings a cleaner holds on a date
DayJobs(cleaner_id, date) ==
    {b \in DOMAIN bookings : bookings[b].cleaner_id = cleaner_id /\ bookings[b].date = date}

\* the availability check of the sweep's step: its cleaner and its verdict
IsSweepTry == sweep.pc = "try" /\ sweep' # sweep
SweepTryPassed == sweep'.pc = "commit"

\* the stored times the check reads for a candidate all parse
TimesParse(cleaner_id, data) ==
    /\ Strptime(data.tfmt)
    /\ \A b \in DayJobs(cleaner_id, data.date) : Strptime(bookings[b].tfmt)

\* the cleaner holds at least max_bookings_per_day bookings on the date
DayIsFull(cleaner_id, data) ==
    Cardinality(DayJobs(cleaner_id, data.date)) >= users[cleaner_id].max_bookings_per_day

\* C22: the availability check returns false whenever the cleaner already
\* has at least max_bookings_per_day bookings on the requested date, even when
\* none of them overlaps the candidate interval, in accept_job and in the
\* sweep alike (so that no cleaner gets more than that many on one date).
\* Stated for stored times that parse.
DayLimitRefuses ==
    [][ /\ \A c \in Cleaners :
              (IsAcceptCheck(c) /\ TimesParse(c, acc[c].data) /\ DayIsFull(c, acc[c].data))
              => acc'[c].result = "unavailable"
        /\ (IsSweepTry
            /\ TimesParse(Head(sweep.cands).uid, Head(sweep.jobs).data)
            /\ DayIsFull(Head(sweep.cands).uid, Head(sweep.jobs).data))
           => ~SweepTryPassed ]_vars

\* C22, the case: a cleaner limited to one booking a day holds one and asks
\* for another on the same date that does not overlap it
DayLimitReached ==
    \E c \in Cleaners :
       /\ acc[c].pc = "check"
       /\ users[c].max_bookings_per_day = 1
       /\ \E b \in DayJobs(c, acc[c].data.date) :
             /\ bookings[b].tfmt = "HH:MM" /\ acc[c].data.tfmt = "HH:MM"
             /\ ~Overlap(acc[c].data.time, acc[c].data.time + acc[c].data.duration,
                         bookings[b].time, bookings[b].time + bookings[b].duration)

\* the interval lies within one of the windows
Contained(windows, start, end) ==
    \E i \in 1..Len(windows) : windows[i].start_time <= start /\ end <= windows[i].end_time

\* the working hours the cleaner stored rule the candidate interval out: the
\* weekly map is not empty, and the date's weekday has no window or none that
\* holds the interval
OutsideWorkingHours(cleaner_id, data) ==
    LET availability == users[cleaner_id].availability
        windows == DayAvailability(availability, data.date)
    IN  /\ DOMAIN availability # {}
        /\ \/ windows = <<>>
           \/ ~Contained(windows, data.time, data.time + data.duration)

\* C23: for a cleaner whose weekly availability was stored by
\* update_availability, the availability check returns false when the map is
\* not empty and the date's weekday has windows none of which holds the
\* candidate interval, or has no windows at all.  Stated for stored times
\* that parse.
WorkingHoursRefuse ==
    [][ /\ \A c \in Cleaners :
              (IsAcceptCheck(c) /\ TimesParse(c, acc[c].data)
               /\ OutsideWorkingHours(c, acc[c].data))
              => acc'[c].result = "unavailable"
        /\ (IsSweepTry
            /\ TimesParse(Head(sweep.cands).uid, Head(sweep.jobs).data)
            /\ OutsideWorkingHours(Head(sweep.cands).uid, Head(sweep.jobs).data))
           => ~SweepTryPassed ]_vars

\* C23, the case: a cleaner who stored a window from 8 to 12 on the weekday
\* of a booking from 10 to 14 asks for that booking
AsksOutsideWindow ==
    \E c \in Cleaners :
       /\ acc[c].pc = "check" /\ Strptime(acc[c].data.tfmt)
       /\ acc[c].data.time = 10 /\ acc[c].data.duration = 4
       /\ Weekday(acc[c].data.date) \in DOMAIN users[c].availability
       /\ users[c].availability[Weekday(acc[c].data.date)]
             = <<[start_time |-> 8, end_time |-> 12]>>

\* something fails inside the availability check of a cleaner for a booking:
\* the booking's own stored time does not parse; or it does and the first
\* booking the cleaner holds that day has a stored time that does not; or
\* every time parses, nothing overlaps, the date is not blocked, and the
\* profile holds the weekday's windows in a shape the check cannot read
CheckFailure(cleaner_id, data) ==
    LET existing == ExistingBookings(1, cleaner_id, data.date)
    IN  \/ ~Strptime(data.tfmt)
        \/ /\ Strptime(data.tfmt)
           /\ existing # <<>>
           /\ ~Strptime(bookings[Head(existing)].tfmt)
        \/ /\ TimesParse(cleaner_id, data)
           /\ \A b \in DayJobs(cleaner_id, data.date) :
                 ~Overlap(data.time, data.time + data.duration,
                          bookings[b].time, bookings[b].time + bookings[b].duration)
           /\ data.date \notin users[cleaner_id].blocked_dates
           /\ DayAvailability(users[cleaner_id].availability, data.date) # <<>>

\* C24: an unexpected failure inside the availability check makes it return
\* true, and the failure reaches neither accept_job nor the sweep: accept_job
\* goes on to its update and the sweep goes on to assign.
CheckFailsOpen ==
    [][ /\ \A c \in Cleaners :
              (IsAcceptCheck(c) /\ CheckFailure(c, acc[c].data)) => acc'[c].pc = "update"
        /\ (IsSweepTry /\ CheckFailure(Head(sweep.cands).uid, Head(sweep.jobs).data)
            /\ <<Head(sweep.cands).uid, Head(sweep.jobs).id>> \notin job_rejections)
           => SweepTryPassed ]_vars

\* C24, the case: accept_job has gone past a check that met a stored time it
\* could not parse, and the sweep past one that met stored windows it could
\* not read
PassedFailedCheck ==
    /\ \E c \in Cleaners : acc[c].pc = "update" /\ ~Strptime(acc[c].data.tfmt)
    /\ sweep.pc = "commit"
    /\ LET c == Head(sweep.cands).uid
           data == Head(sweep.jobs).data
       IN  Strptime(data.tfmt) /\ DayAvailability(users[c].availability, data.date) # <<>>

\* a step of the sweep raises while it processes booking b
Faulted(b) == \E step \in FaultSteps : <<b, step>> \in faults

PartyStatus(by) ==
    IF by \in Clients THEN "cancelled_by_client"
    ELSE IF by \in Cleaners THEN "cancelled_by_cleaner"
    ELSE "cancelled_admin"

\* a cancellation on any path has just succeeded
IsCancelled ==
    /\ resp'.res = "cancelled"
    /\ \/ Answered("cancel_booking")
       \/ Answered("simple_cancel_booking")
       \/ Answered("admin_cancel_booking")

\* C26: on every cancellation path the status a successful cancellation
\* writes is determined by the party that issued it: cancelled_by_client for
\* the client, cancelled_by_cleaner for the assigned cleaner, cancelled_admin
\* for an admin.
CancelStatusNamesParty ==
    [][IsCancelled => bookings'[resp'.bk].status = PartyStatus(resp'.by)]_vars

\* C26, the case: the client has cancelled through BookingService and an
\* admin has cancelled another booking through the admin API
CancelledByClientAndAdmin ==
    /\ resp.op = "admin_cancel_booking" /\ resp.res = "cancelled"
    /\ bookings[resp.bk].status = "cancelled_admin"
    /\ \E b \in DOMAIN bookings : bookings[b].status = "cancelled_by_client"

\* the cancelled variants
CancelledStatuses == {"cancelled", "cancelled_by_client", "cancelled_by_cleaner",
                      "cancelled_admin"}

\* two bookings of one cleaner, neither cancelled, on one date, whose
\* intervals [start, start + duration) overlap
DoubleBooked(b1, b2) ==
    /\ b1 # b2
    /\ Assigned(b1) /\ bookings[b1].cleaner_id = bookings[b2].cleaner_id
    /\ bookings[b1].status \notin CancelledStatuses
    /\ bookings[b2].status \notin CancelledStatuses
    /\ bookings[b1].date = bookings[b2].date
    /\ Overlap(bookings[b1].time, bookings[b1].time + bookings[b1].duration,
               bookings[b2].time, bookings[b2].time + bookings[b2].duration)

\* C27: no double-booking: in every state reachable by accept_job calls and
\* sweeps, no cleaner is assigned to two non-cancelled bookings on the same
\* date whose intervals overlap.
NoDoubleBooking ==
    \A b1, b2 \in DOMAIN bookings : ~DoubleBooked(b1, b2)

\* C27, the case: a cleaner who holds a booking has been refused a second
\* one that overlaps it
SecondBookingRefused ==
    \E c \in Cleaners :
       /\ acc[c].pc = "done" /\ acc[c].result = "unavailable"
       /\ \E b \in DOMAIN bookings :
             /\ b # acc[c].bk /\ bookings[b].cleaner_id = c
             /\ bookings[b].date = bookings[acc[c].bk].date
             /\ Overlap(bookings[b].time, bookings[b].time + bookings[b].duration,
                        bookings[acc[c].bk].time,
                        bookings[acc[c].bk].time + bookings[acc[c].bk].duration)

\* C28: no booking b has cleaner_id = c while a rejection record for (c, b)
\* exists; in particular a cleaner who has accepted a still unpaid (pending)
\* booking cannot afterwards create a rejection record for it.  Stated for
\* reject_job: it never writes a rejection record for a booking its caller
\* holds.
HolderCannotReject ==
    [][(Answered("reject_job") /\ resp'.res = "rejected")
         => bookings[resp'.bk].cleaner_id # resp'.by]_vars

\* C28, the case: a cleaner who had rejected a booking has accepted it, and
\* the rejection record is gone
HolderRejectionCleared ==
    \E c \in Cleaners :
       /\ acc[c].pc = "done" /\ acc[c].result = "success"
       /\ bookings[acc[c].bk].cleaner_id = c
       /\ <<c, acc[c].bk>> \notin job_rejections
       /\ resp.op = "reject_job" /\ resp.res = "rejected"
       /\ resp.by = c /\ resp.bk = acc[c].bk

\* the payment-success event for a booking has just been processed, by the
\* webhook or by confirm-payment
IsPaymentSuccess ==
    \/ Answered("stripe_webhook") /\ resp'.res = "payment_intent.succeeded"
    \/ Answered("confirm_payment") /\ resp'.res = "succeeded"

\* C29: two-factor confirmation is reached in either order: a booking
\* assigned before payment becomes confirmed when the payment-success event is
\* processed, and a booking paid before assignment remains selectable by
\* accept_job and by the sweep (pending and unassigned), so that it is
\* confirmed by the assignment.
ConfirmedInEitherOrder ==
    [][ IsPaymentSuccess =>
          LET b == resp'.bk
          IN  bookings[b].status = "pending" =>
                IF Assigned(b) THEN bookings'[b].status = "confirmed"
                ELSE bookings'[b].status = "pending" /\ bookings'[b].cleaner_id = None
      ]_vars

\* C29, the case: a booking has a cleaner and a payment that succeeded
AssignedAndPaid ==
    \E b \in DOMAIN bookings :
       /\ Assigned(b) /\ bookings[b].pay = "succeeded"
       /\ resp.bk = b /\ resp.op \in {"stripe_webhook", "confirm_payment"}

\* C30: no assignment writes a cleaner_id onto a booking that is no longer
\* pending at the time of the write; stated for the case the claim names: a
\* booking cancelled between the moment accept_job or the sweep read it and
\* the moment they commit is not written, so that no cancelled booking ever
\* acquires a cleaner_id.
NoAssignmentOntoCancelled ==
    [][ /\ \A c \in Cleaners :
              IsAcceptUpdate(c) => bookings[acc[c].bk].status \notin CancelledStatuses
        /\ IsSweepCommit => bookings[Head(sweep.jobs).id].status \notin CancelledStatuses
        /\ \A b \in DOMAIN bookings :
              (bookings[b].status \in CancelledStatuses /\ ~Assigned(b))
              => bookings'[b].cleaner_id = None ]_vars

\* C30, the case: a booking was cancelled while accept_job was between its
\* query and its update
CancelledDuringAccept ==
    \E c \in Cleaners :
       /\ acc[c].pc \in {"check", "update"}
       /\ bookings[acc[c].bk].status \in CancelledStatuses
====
